---- MODULE Spec2Model ----
(***************************************************************************)
(* A model of the association engine, the identity map / loader and the   *)
(* query array of the model layer (model.js and query_array.js).          *)
(*                                                                         *)
(* The specifications of the module:                                      *)
(*   Spec       associations: hasOne / hasMany properties and their       *)
(*              inverse synchronisation;                                   *)
(*   SpecLoad   Model.load / local / empty / get / new and the identity   *)
(*              map (SpecId, SpecGraph and SpecKeys vary its inputs);      *)
(*   SpecQuery  QueryArray#query and the promise jobs it schedules        *)
(*              (SpecThen adds then / catch);                              *)
(*   SpecRegister, SpecAttr, SpecDeclare                                   *)
(*              Model.registerClass, the accessors of Model.attr and the  *)
(*              descriptor maps of Model.hasOne / Model.hasMany.           *)
(***************************************************************************)
EXTENDS Integers, Sequences, FiniteSets, TLC

(***************************************************************************)
(* Bounds of the model.                                                    *)
(***************************************************************************)
\* longest array a hasMany property is driven to
MaxLen == 2
\* most arguments handed to one add<Name> / remove<Name> call, and the
\* longest array literal assigned to a hasMany property
MaxArgs == 2

(***************************************************************************)
(* The state.                                                              *)
(***************************************************************************)
VARIABLES
  \* associations
  decl,   \* the declared schema: class name -> descriptor
  one,    \* o.__<name>__ of a hasOne property: a model, undefined or null
  many,   \* o.__<name>__ of a hasMany property: a reference to an array
  heap,   \* the array objects: reference -> sequence of models
  raised, \* the exception the last operation raised, NoErr when it returned
  failed, \* the function the last operation was in when it raised
  \* identity map and loader
  inst,   \* the instances constructed so far: their private slots
  live,   \* how many instances were constructed
  idmap,  \* IdMap: id -> instance (NoInst when none)
  inserts, \* how many times IdMap.insert was called with each instance
  call,   \* the last call: its name, arguments, result and exception
  \* query array
  mapper,   \* what the class's mapper is
  isBusy,   \* __isBusy__
  queued,   \* __queued__: the options of the latest call made while busy
  error,    \* __error__
  contents, \* the models in the array
  promise,  \* __promise__: a reference into promises
  promises, \* the promise objects: state, reactions and followers
  jobs,     \* the promise jobs waiting to run, oldest first
  inflight, \* mapper calls whose settlement handler has not run
  calls,    \* the options of every call of mapper.query so far
  log,      \* the query() calls made by the program and the settlements
  handled,  \* the handlers given to then / catch, and what was called of each
  thrown,   \* the exception the last query() call raised at the call site
  \* class-level declarations
  registeredClasses, \* registeredClasses: name -> class (Unbound when none)
  displayName,       \* klass.displayName of each Model subclass
  attrDecl,   \* the attribute declared with attr(name, type, opts)
  slot,       \* m.__<name>__ of the declared attribute
  shadow,     \* m.<name>BeforeCoercion
  ownAssociations, \* the own `associations` property of each class's prototype
  maps,       \* the descriptor maps: their prototype and their own entries
  declared,   \* the hasOne / hasMany declarations made so far
  ccall       \* the last class-level call: its name, arguments and exception

avars == <<decl, one, many, heap, raised, failed>>
lvars == <<inst, live, idmap, inserts, call>>
qvars == <<mapper, isBusy, queued, error, contents, promise, promises, jobs,
           inflight, calls, log, handled, thrown>>
cvars == <<registeredClasses, displayName, attrDecl, slot, shadow, ownAssociations,
           maps, declared, ccall>>
vars == <<avars, lvars, qvars, cvars>>

(***************************************************************************)
(* Values.                                                                 *)
(***************************************************************************)
Undef == "undefined"
Null == "null"

Foos == {"f1", "f2"}
Bars == {"b1", "b2"}
Obj == Foos \cup Bars

\* o.constructor
ClassOf(o) == IF o \in Foos THEN "Foo" ELSE "Bar"

\* JavaScript truthiness of a value held by an association slot
Truthy(v) == v \notin {Undef, Null}

\* Array objects live in a heap; a hasMany slot holds a reference to one.
ArrIds == 1..(Cardinality(Obj) + 1)

NoErr == "none"
TypeMismatch == "TypeMismatch"
UnknownAssociation == "UnknownAssociation"

(***************************************************************************)
(* Association descriptors: what Model.hasOne / Model.hasMany store in    *)
(* prototype.associations.  A schema gives the descriptor of each class;  *)
(* NoDesc is a class that declared no association.                         *)
(***************************************************************************)
NoDesc == [type |-> "none", name |-> Undef, klass |-> Undef, inverse |-> Undef]

hasOne(name, klass, inverse) ==
  [type |-> "hasOne", name |-> name, klass |-> klass, inverse |-> inverse]

hasMany(name, klass, inverse) ==
  [type |-> "hasMany", name |-> name, klass |-> klass, inverse |-> inverse]

\* The declarations of the test suite's Foo / Bar pairs.
Schemas ==
  { [Foo |-> hasOne("bar", "Bar", "foo"),    Bar |-> hasOne("foo", "Foo", "bar")],
    [Foo |-> hasOne("bar", "Bar", "foos"),   Bar |-> hasMany("foos", "Foo", "bar")],
    [Foo |-> hasMany("bars", "Bar", "foo"),  Bar |-> hasOne("foo", "Foo", "bars")],
    [Foo |-> hasMany("bars", "Bar", "foos"), Bar |-> hasMany("foos", "Foo", "bars")],
    [Foo |-> hasOne("bar", "Bar", Undef),    Bar |-> NoDesc],
    [Foo |-> hasMany("bars", "Bar", Undef),  Bar |-> NoDesc] }

\* this.associations[name]
associations(d, o, name) ==
  IF d[ClassOf(o)].type # "none" /\ d[ClassOf(o)].name = name
  THEN d[ClassOf(o)] ELSE NoDesc

\* Array.prototype.indexOf, 1-based; 0 when absent (JavaScript's -1)
indexOf(a, m) ==
  IF \E i \in 1..Len(a) : a[i] = m
  THEN CHOOSE i \in 1..Len(a) : a[i] = m /\ \A j \in 1..(i - 1) : a[j] # m
  ELSE 0

\* Array.prototype.splice(i, 1)
splice(a, i) == [k \in 1..(Len(a) - 1) |-> IF k < i THEN a[k] ELSE a[k + 1]]

\* checkAssociatedType: TRUE when o passes, FALSE when it throws
checkAssociatedType(desc, o) == ClassOf(o) = desc.klass

\* The machine state the association functions work on.  err is the
\* exception in flight (NoErr when none); trace lists the inverse calls made.
Throw(s, e) == [s EXCEPT !.err = e]

RECURSIVE inverseRemoved(_, _, _, _), inverseAdded(_, _, _, _)
RECURSIVE hasOneSet(_, _, _, _, _), hasManyAdd(_, _, _, _, _), hasManyRemove(_, _, _, _, _)
RECURSIVE notifyRemoved(_, _, _, _), notifyAdded(_, _, _, _)

inverseRemoved(s, self, name, model) ==
  IF s.err # NoErr THEN s
  ELSE LET desc == associations(s.decl, self, name)
           s1 == [s EXCEPT !.trace = Append(@, <<"inverseRemoved", self, model>>)]
       IN  IF desc.type = "none" THEN Throw(s1, UnknownAssociation)
           ELSE IF desc.type = "hasOne" THEN hasOneSet(s1, self, desc, Undef, FALSE)
           ELSE hasManyRemove(s1, self, desc, <<model>>, FALSE)

\* inverseAdded reporting back to the model that called it
inverseAddedEchoes(s, self, name, model) ==
  IF s.err # NoErr THEN s
  ELSE LET desc == associations(s.decl, self, name)
           s1 == [s EXCEPT !.trace = Append(@, <<"inverseAdded", self, model>>)]
           s2 == IF desc.type = "none" THEN Throw(s1, UnknownAssociation)
                 ELSE IF desc.type = "hasOne" THEN hasOneSet(s1, self, desc, model, FALSE)
                 ELSE hasManyAdd(s1, self, desc, <<model>>, FALSE)
       IN  IF Truthy(desc.inverse) THEN inverseRemoved(s2, model, desc.inverse, self)
           ELSE s2

inverseAdded(s, self, name, model) ==
  IF s.err # NoErr THEN s
  ELSE LET desc == associations(s.decl, self, name)
           s1 == [s EXCEPT !.trace = Append(@, <<"inverseAdded", self, model>>)]
       IN  IF desc.type = "none" THEN Throw(s1, UnknownAssociation)
           ELSE IF desc.type = "hasOne" THEN hasOneSet(s1, self, desc, model, FALSE)
           ELSE hasManyAdd(s1, self, desc, <<model>>, FALSE)

\* hasOneSet without the detach of the previous value's inverse side
hasOneSetKeepsPrev(s, self, desc, v, sync) ==
  IF s.err # NoErr THEN s
  ELSE LET inv == desc.inverse
       IN  IF Truthy(v) /\ ~checkAssociatedType(desc, v) THEN Throw(s, TypeMismatch)
           ELSE LET s1 == [s EXCEPT !.one[self] = v]
                IN  IF sync /\ Truthy(inv) /\ Truthy(v)
                    THEN inverseAdded(s1, v, inv, self) ELSE s1

\* hasOneSet storing the value before it checks its type
hasOneSetChecksLate(s, self, desc, v, sync) ==
  IF s.err # NoErr THEN s
  ELSE LET s1 == [s EXCEPT !.one[self] = v]
       IN  IF Truthy(v) /\ ~checkAssociatedType(desc, v) THEN Throw(s1, TypeMismatch)
           ELSE hasOneSetKeepsPrev(s, self, desc, v, sync)

hasOneSet(s, self, desc, v, sync) ==
  IF s.err # NoErr THEN s
  ELSE LET prev == s.one[self]
           inv == desc.inverse
       IN  IF Truthy(v) /\ ~checkAssociatedType(desc, v) THEN Throw(s, TypeMismatch)
           ELSE LET s1 == [s EXCEPT !.one[self] = v]
                    s2 == IF sync /\ Truthy(inv) /\ Truthy(prev)
                          THEN inverseRemoved(s1, prev, inv, self) ELSE s1
                IN  IF sync /\ Truthy(inv) /\ Truthy(v)
                    THEN inverseAdded(s2, v, inv, self) ELSE s2

\* for (m of ms) { inverseRemoved.call(m, inv, this); }
notifyRemoved(s, ms, inv, self) ==
  IF ms = <<>> THEN s
  ELSE notifyRemoved(inverseRemoved(s, Head(ms), inv, self), Tail(ms), inv, self)

\* for (m of ms) { inverseAdded.call(m, inv, this); }
notifyAdded(s, ms, inv, self) ==
  IF ms = <<>> THEN s
  ELSE notifyAdded(inverseAdded(s, Head(ms), inv, self), Tail(ms), inv, self)

\* hasManySet detaching the old members before it checks the new ones
hasManySetChecksLate(s, self, desc, a) ==
  LET prev == s.heap[s.many[self]]
      new == s.heap[a]
      s0 == IF Truthy(desc.inverse) THEN notifyRemoved(s, prev, desc.inverse, self) ELSE s
  IN  IF \E i \in 1..Len(new) : ~checkAssociatedType(desc, new[i])
      THEN Throw(s0, TypeMismatch)
      ELSE LET s1 == IF Truthy(desc.inverse)
                     THEN notifyAdded(s0, new, desc.inverse, self)
                     ELSE s0
           IN  IF s1.err # NoErr THEN s1 ELSE [s1 EXCEPT !.many[self] = a]

\* a is a reference to the array being assigned
hasManySet(s, self, desc, a) ==
  LET prev == s.heap[s.many[self]]
      new == s.heap[a]
  IN  IF \E i \in 1..Len(new) : ~checkAssociatedType(desc, new[i])
      THEN Throw(s, TypeMismatch)
      ELSE LET s1 == IF Truthy(desc.inverse)
                     THEN notifyAdded(notifyRemoved(s, prev, desc.inverse, self),
                                      new, desc.inverse, self)
                     ELSE s
           IN  IF s1.err # NoErr THEN s1 ELSE [s1 EXCEPT !.many[self] = a]

\* hasManyAdd checking every argument before it adds the first
hasManyAddChecksFirst(s, self, desc, models, sync) ==
  IF s.err # NoErr \/ models = <<>> THEN s
  ELSE IF \E i \in 1..Len(models) : ~checkAssociatedType(desc, models[i])
  THEN Throw(s, TypeMismatch)
  ELSE LET m == Head(models)
           s1 == IF sync /\ Truthy(desc.inverse)
                 THEN inverseAdded(s, m, desc.inverse, self) ELSE s
           s2 == IF s1.err # NoErr THEN s1
                 ELSE [s1 EXCEPT !.heap[s1.many[self]] = Append(@, m)]
       IN  hasManyAdd(s2, self, desc, Tail(models), sync)

hasManyAdd(s, self, desc, models, sync) ==
  IF s.err # NoErr \/ models = <<>> THEN s
  ELSE LET m == Head(models)
       IN  IF ~checkAssociatedType(desc, m) THEN Throw(s, TypeMismatch)
           ELSE LET s1 == IF sync /\ Truthy(desc.inverse)
                          THEN inverseAdded(s, m, desc.inverse, self) ELSE s
                    s2 == IF s1.err # NoErr THEN s1
                          ELSE [s1 EXCEPT !.heap[s1.many[self]] = Append(@, m)]
                IN  hasManyAdd(s2, self, desc, Tail(models), sync)

hasManyRemove(s, self, desc, models, sync) ==
  IF s.err # NoErr \/ models = <<>> THEN s
  ELSE LET m == Head(models)
           i == indexOf(s.heap[s.many[self]], m)
           s1 == IF i = 0 THEN s
                 ELSE LET t == IF sync /\ Truthy(desc.inverse)
                               THEN inverseRemoved(s, m, desc.inverse, self) ELSE s
                      IN  IF t.err # NoErr THEN t
                          ELSE [t EXCEPT !.heap[t.many[self]] = splice(@, i)]
       IN  hasManyRemove(s1, self, desc, Tail(models), sync)

(***************************************************************************)
(* The association operations as steps of the program.                    *)
(***************************************************************************)
\* the machine state at the start of an operation
Start == [decl |-> decl, one |-> one, many |-> many, heap |-> heap,
          err |-> NoErr, trace |-> <<>>]

ObjOrder == <<"f1", "f2", "b1", "b2">>

\* the array an instance creates for itself on the first read of its
\* hasMany property
OwnRef(o) == CHOOSE r \in 1..Len(ObjOrder) : ObjOrder[r] = o

\* a reference for an array object created by the caller: one no slot holds
FreshRef == Len(ObjOrder) + 1

\* References are names only: after an operation every array is renamed to
\* the own reference of the first instance that holds it, and arrays that no
\* slot holds any more are dropped.
Holder(m, o) == CHOOSE k \in 1..Len(ObjOrder) :
                  /\ m[ObjOrder[k]] = m[o]
                  /\ \A j \in 1..(k - 1) : m[ObjOrder[j]] # m[o]

Renamed(m) == [o \in Obj |-> Holder(m, o)]

Collect(h, m) ==
  [r \in ArrIds |->
     IF \E o \in Obj : Holder(m, o) = r
     THEN h[m[ObjOrder[r]]] ELSE <<>>]

\* argument lists and array literals over a set of models
RECURSIVE SeqsUpTo(_, _)
SeqsUpTo(S, n) ==
  IF n = 0 THEN {<<>>}
  ELSE LET shorter == SeqsUpTo(S, n - 1)
       IN  shorter \cup {Append(q, x) : q \in {t \in shorter : Len(t) = n - 1}, x \in S}

\* what a caller may pass to o's association: instances of the associated
\* class and, as the object of a wrong type, an instance of o's own class
Passable(o) == {p \in Obj : ClassOf(p) # ClassOf(o)} \cup {o}

ArgLists(o) == SeqsUpTo(Passable(o), MaxArgs)

\* the state an operation leaves, s, becomes the program's state
Finish(s) ==
  /\ \A r \in ArrIds : Len(s.heap[r]) <= MaxLen
  /\ one' = s.one
  /\ many' = Renamed(s.many)
  /\ heap' = Collect(s.heap, s.many)
  /\ raised' = s.err
  /\ UNCHANGED <<decl, lvars, qvars, cvars>>

\* the function an operation that raised had called
NoOne == "none"

RaisedIn(f) == failed' = IF raised' = NoErr THEN NoOne ELSE f

\* o.<name> = v for a hasOne property
SetHasOne(o, v) ==
  /\ decl[ClassOf(o)].type = "hasOne"
  /\ Finish(hasOneSet(Start, o, decl[ClassOf(o)], v, TRUE))
  /\ RaisedIn("hasOneSet")

\* o.<name> = [ ... ] for a hasMany property, the array being a new object
SetHasMany(o, a) ==
  /\ decl[ClassOf(o)].type = "hasMany"
  /\ Finish(hasManySet([Start EXCEPT !.heap[FreshRef] = a], o, decl[ClassOf(o)], FreshRef))
  /\ RaisedIn("hasManySet")

\* o.<name> = p.<name>: the array object another instance already holds
SetHasManyShared(o, p) ==
  /\ decl[ClassOf(o)].type = "hasMany"
  /\ ClassOf(p) = ClassOf(o)
  /\ Finish(hasManySet(Start, o, decl[ClassOf(o)], many[p]))
  /\ RaisedIn("hasManySet")

\* o.add<Name>(...models)
AddHasMany(o, models) ==
  /\ decl[ClassOf(o)].type = "hasMany"
  /\ Finish(hasManyAdd(Start, o, decl[ClassOf(o)], models, TRUE))
  /\ RaisedIn("hasManyAdd")

\* o.remove<Name>(...models)
RemoveHasMany(o, models) ==
  /\ decl[ClassOf(o)].type = "hasMany"
  /\ Finish(hasManyRemove(Start, o, decl[ClassOf(o)], models, TRUE))
  /\ RaisedIn("hasManyRemove")

\* o.clear<Name>()
ClearHasMany(o) ==
  /\ decl[ClassOf(o)].type = "hasMany"
  /\ Finish(hasManySet([Start EXCEPT !.heap[FreshRef] = <<>>], o, decl[ClassOf(o)], FreshRef))
  /\ RaisedIn("hasManySet")

\* every instance starts with its hasOne slot undefined and, on first read,
\* an empty array of its own in its hasMany slot
NoAssociations ==
  /\ one = [o \in Obj |-> Undef]
  /\ many = [o \in Obj |-> OwnRef(o)]
  /\ heap = [r \in ArrIds |-> <<>>]
  /\ raised = NoErr
  /\ failed = NoOne

AInit ==
  /\ decl \in Schemas
  /\ NoAssociations

ANext ==
  \/ \E o \in Obj : \E v \in Passable(o) \cup {Undef, Null} : SetHasOne(o, v)
  \/ \E o \in Obj : \E a \in ArgLists(o) : SetHasMany(o, a)
  \/ \E o \in Obj, p \in Obj : SetHasManyShared(o, p)
  \/ \E o \in Obj : \E models \in ArgLists(o) : AddHasMany(o, models)
  \/ \E o \in Obj : \E models \in ArgLists(o) : RemoveHasMany(o, models)
  \/ \E o \in Obj : ClearHasMany(o)

(***************************************************************************)
(* The identity map and the loader: Model.load, local, empty, get, the    *)
(* constructor and the id setter, for one model class with a string       *)
(* attribute `str` (the test suite's BasicModel) and, as the test suite's *)
(* Post has, a hasOne association `author` and a hasMany association      *)
(* `tags`.  The associations refer to the class itself (inverses `posts`  *)
(* and `tagged`), so that one identity map holds both ends.                *)
(***************************************************************************)
\* most instances of the class ever constructed
MaxInst == 2
\* most calls of IdMap.insert with one instance
MaxInserts == 3

\* the values true and false of a field that may also be undefined
True == "true"
False == "false"

\* Model.NEW (NEW is a reserved word)
NEW_STATE == "new"
EMPTY == "empty"
LOADED == "loaded"
DELETED == "deleted"
NOTFOUND == "notfound"

MissingIdentity == "MissingIdentity"
\* the TypeError of an assignment to a property that has a getter only
ReadOnlyProperty == "ReadOnlyProperty"
IdentityImmutable == "IdentityImmutable"
\* the model's pool of instances is used up (the program has no such limit)
OutOfInstances == "OutOfInstances"

\* ids: the number 0 (falsy in JavaScript) and three other numbers; a caller
\* may also pass undefined
Id0 == "0"
Ids == {Id0, "1", "2", "3"}
IdValues == Ids \cup {Undef}
\* what an id property can be assigned
IdKeys == IdValues \cup {Null}

\* !!v for an id
TruthyId(v) == v \notin {Undef, Null, Id0}

\* a key a payload does not have
Absent == "absent"
\* the number 7, and the string String(7)
Num7 == "#7"
Str7 == "7"
StrValues == {"s1", Num7}

\* StringAttr.coerce
StringAttrCoerce(v) ==
  IF v \in {Undef, Null} THEN v
  ELSE IF v = Num7 THEN Str7
  ELSE v

Insts == 1..MaxInst
NoInst == 0

\* what a hasOne slot holds: undefined, null or a model
Unset == [kind |-> Undef, ref |-> NoInst]
Nulled == [kind |-> Null, ref |-> NoInst]
ToModel(i) == [kind |-> "model", ref |-> i]

\* what a payload has under an association's key: nothing, null, an id, or
\* a nested payload
NoValue == [kind |-> Absent, id |-> Undef, str |-> Absent]
NullValue == [kind |-> Null, id |-> Undef, str |-> Absent]
BareId(id) == [kind |-> "id", id |-> id, str |-> Absent]
Nested(id, str) == [kind |-> "nested", id |-> id, str |-> str]

\* the ids payloads use for associated models
RefIds == {"2", "3"}
RawRefs == {BareId(id) : id \in RefIds} \cup {Nested(id, "s1") : id \in RefIds}

\* what a payload has under a hasMany association's key: nothing, or an
\* array of ids and nested payloads
NoArray == [given |-> FALSE, items |-> <<>>]
Array(items) == [given |-> TRUE, items |-> items]
RawArrays == {Array(<<>>), Array(<<BareId("3")>>),
              Array(<<BareId("2"), BareId("3")>>), Array(<<Nested("3", "s1")>>)}

\* an object the constructor has not run on yet; the hasMany properties read
\* as [] until they are assigned
\* props holds the names of the own properties an assignment created that
\* no attribute or association declares
Blank == [id |-> Undef, str |-> Undef, sourceState |-> Undef, isBusy |-> Undef,
          author |-> Unset, posts |-> <<>>, tags |-> <<>>, tagged |-> <<>>,
          props |-> {}]

\* IdMap.get(klass, id)
IdMapGet(m, id) == m.idmap[id]

\* IdMap.insert(model): registers the model under its id
IdMapInsert(m, i) ==
  [m EXCEPT !.idmap[m.inst[i].id] = i, !.inserts[i] = @ + 1]

\* set id(id)
setId(m, i, id) ==
  IF m.err # NoErr THEN m
  ELSE IF TruthyId(m.inst[i].id) THEN Throw(m, IdentityImmutable)
  ELSE IdMapInsert([m EXCEPT !.inst[i].id = id], i)

\* the setter Model.attr defines for `str`
setStr(m, i, v) ==
  IF m.err # NoErr THEN m
  ELSE [m EXCEPT !.inst[i].str = StringAttrCoerce(v)]

\* the setter Model.hasOne defines for `author`, given what a payload
\* holds: hasOneSet(desc, v, true).  No payload value is an instance of the
\* associated class, so a truthy one fails checkAssociatedType; the slot
\* never holds a model, so the inverse is not called.
setAuthor(m, i, v) ==
  IF m.err # NoErr THEN m
  ELSE IF v.kind \in {"id", "nested"} THEN Throw(m, TypeMismatch)
  ELSE [m EXCEPT !.inst[i].author = Nulled]

\* the setter Model.hasMany defines for `tags`, given what a payload holds:
\* hasManySet(desc, a).  checkAssociatedType fails on the first element; an
\* empty array replaces an array that is empty.
setTags(m, i, a) ==
  IF m.err # NoErr THEN m
  ELSE IF a.items # <<>> THEN Throw(m, TypeMismatch)
  ELSE [m EXCEPT !.inst[i].tags = <<>>]

\* keys a payload may have that name no attribute and no association of the
\* class: one no model has, the name of a method every model inherits, and
\* the name of a property the class defines with a getter only
OtherKeys == {"blah", "toString", "sourceState"}

\* if (k in this) { this[k] = attrs[k]; } for such a key: `in` finds what the
\* prototypes define; the assignment makes an own property over a method and
\* throws, the module being strict code, on a property without setter
setOther(m, i, k) ==
  IF m.err # NoErr \/ k = "blah" THEN m
  ELSE IF k = "sourceState" THEN Throw(m, ReadOnlyProperty)
  ELSE [m EXCEPT !.inst[i].props = @ \cup {k}]

\* for (let k in attrs) { if (k in this) { this[k] = attrs[k]; } }
\* for a payload with the keys id, str, author, tags and one other key, in
\* that order (any of them may be absent)
assignAll(m, i, attrs) ==
  LET m1 == IF attrs.id # Absent THEN setId(m, i, attrs.id) ELSE m
      m2 == IF attrs.str # Absent THEN setStr(m1, i, attrs.str) ELSE m1
      m3 == IF attrs.author.kind # Absent THEN setAuthor(m2, i, attrs.author) ELSE m2
      m4 == IF attrs.tags.given THEN setTags(m3, i, attrs.tags) ELSE m3
  IN  IF attrs.other # Absent THEN setOther(m4, i, attrs.other) ELSE m4

\* an attributes object without a key
NoAttrs == [id |-> Absent, str |-> Absent, author |-> NoValue, tags |-> NoArray,
            other |-> Absent]

\* new this(attrs): the new instance is m.ret
construct(m, attrs) ==
  LET i == m.live + 1
      m1 == [m EXCEPT !.live = i, !.inst[i] = Blank, !.ret = i]
  IN  IF i > MaxInst THEN Throw([m EXCEPT !.live = i], OutOfInstances)
      ELSE assignAll(m1, i, attrs)

\* Model.empty(id)
empty(m, id) ==
  LET m1 == construct(m, [NoAttrs EXCEPT !.id = id])
  IN  IF m1.err # NoErr THEN m1
      ELSE [m1 EXCEPT !.inst[m1.ret].sourceState = EMPTY]

\* local asking the mapper for a model the identity map does not have
localThroughMapper(m, id) ==
  IF IdMapGet(m, id) # NoInst THEN [m EXCEPT !.ret = IdMapGet(m, id)]
  ELSE [empty(m, id) EXCEPT !.calls = Append(@, "get")]

\* Model.local(id)
local(m, id) ==
  IF IdMapGet(m, id) # NoInst THEN [m EXCEPT !.ret = IdMapGet(m, id)]
  ELSE empty(m, id)

\* Model.get(id)
get(m, id) == local(m, id)

\* load without the look-up in the identity map
loadAlwaysNew(m, attrs) ==
  LET id == IF attrs.id = Absent THEN Undef ELSE attrs.id
  IN  IF ~TruthyId(id) THEN Throw(m, MissingIdentity)
      ELSE LET m1 == construct(m, NoAttrs)
               i == m1.ret
               m2 == assignAll(m1, i, [attrs EXCEPT !.id = Absent])
               m3 == IF m2.err # NoErr THEN m2
                     ELSE IF m2.inst[i].id = Undef THEN setId(m2, i, id) ELSE m2
           IN  IF m3.err # NoErr THEN m3
               ELSE [m3 EXCEPT !.inst[i].sourceState = LOADED,
                               !.inst[i].isBusy = False]

\* load leaving __sourceState__ and __isBusy__ as they are
loadKeepsState(m, attrs) ==
  LET id == IF attrs.id = Absent THEN Undef ELSE attrs.id
  IN  IF ~TruthyId(id) THEN Throw(m, MissingIdentity)
      ELSE LET m1 == IF IdMapGet(m, id) # NoInst
                     THEN [m EXCEPT !.ret = IdMapGet(m, id)]
                     ELSE construct(m, NoAttrs)
               i == m1.ret
               m2 == assignAll(m1, i, [attrs EXCEPT !.id = Absent])
           IN  IF m2.err # NoErr THEN m2
               ELSE IF m2.inst[i].id = Undef THEN setId(m2, i, id) ELSE m2

\* Model.load(attrs)
load(m, attrs) ==
  LET id == IF attrs.id = Absent THEN Undef ELSE attrs.id
  IN  IF ~TruthyId(id) THEN Throw(m, MissingIdentity)
      ELSE LET m1 == IF IdMapGet(m, id) # NoInst
                     THEN [m EXCEPT !.ret = IdMapGet(m, id)]
                     ELSE construct(m, NoAttrs)
               i == m1.ret
               m2 == assignAll(m1, i, [attrs EXCEPT !.id = Absent])
               m3 == IF m2.err # NoErr THEN m2
                     ELSE IF m2.inst[i].id = Undef THEN setId(m2, i, id) ELSE m2
           IN  IF m3.err # NoErr THEN m3
               ELSE [m3 EXCEPT !.inst[i].sourceState = LOADED,
                               !.inst[i].isBusy = False]

\* the machine state at the start of a call
LStart == [inst |-> inst, live |-> live, idmap |-> idmap, inserts |-> inserts,
           calls |-> calls,
           err |-> NoErr, ret |-> NoInst]

\* the payloads with attributes only
Payloads == [id : IdValues \cup {Absent}, str : StrValues \cup {Absent},
             author : {NoValue}, tags : {NoArray}, other : {Absent}]

\* the payloads with a key for an association
GraphPayloads == [id : {"1"}, str : {Absent, "s1"},
                  author : {NoValue, NullValue} \cup RawRefs,
                  tags : {NoArray} \cup RawArrays, other : {Absent}] \ Payloads

\* the payloads with a key that names no attribute and no association
KeyPayloads == [id : {"1", "2"}, str : {Absent, "s1"},
                author : {NoValue}, tags : {NoArray}, other : OtherKeys]

\* the state a call leaves becomes the program's state; the caller gets the
\* result only when the call returned.  call.reload tells a load that directly
\* follows a successful load of the same id, call.was the sourceState the
\* returned instance had before the call.
LFinish(m, op, id) ==
  /\ m.err # OutOfInstances
  /\ inst' = m.inst
  /\ live' = m.live
  /\ idmap' = m.idmap
  /\ inserts' = m.inserts
  /\ call' = [op |-> op, id |-> id, err |-> m.err,
              ret |-> IF m.err = NoErr THEN m.ret ELSE NoInst,
              reload |-> /\ op = "load"
                         /\ call.op = "load" /\ call.err = NoErr /\ call.id = id,
              was |-> IF m.err = NoErr THEN inst[m.ret].sourceState ELSE Undef]
  /\ calls' = m.calls
  /\ UNCHANGED <<avars, mapper, isBusy, queued, error, contents, promise,
                 promises, jobs, inflight, log, handled, thrown, cvars>>

\* new BasicModel(attrs)
New(attrs) ==
  /\ attrs \in Payloads
  /\ LFinish(construct(LStart, attrs), "new", attrs.id)

\* BasicModel.empty(id)
Empty(id) ==
  /\ id \in IdValues
  /\ LFinish(empty(LStart, id), "empty", id)

\* BasicModel.local(id)
Local(id) ==
  /\ id \in IdValues
  /\ LFinish(local(LStart, id), "local", id)

\* BasicModel.get(id)
Get(id) ==
  /\ id \in IdValues
  /\ LFinish(get(LStart, id), "get", id)

\* BasicModel.load(attrs)
Load(attrs) ==
  /\ attrs \in Payloads \cup GraphPayloads \cup KeyPayloads
  /\ LFinish(load(LStart, attrs), "load", attrs.id)

\* m.id = id, for an instance m constructed earlier
SetId(i, id) ==
  /\ i \in 1..live
  /\ id \in IdKeys
  /\ setId(LStart, i, id).inserts[i] <= MaxInserts
  /\ LFinish([setId(LStart, i, id) EXCEPT !.ret = i], "id=", id)

NoCall == [op |-> "none", id |-> Absent, err |-> NoErr, ret |-> NoInst,
           reload |-> FALSE, was |-> Undef]

LInit ==
  /\ inst = [i \in Insts |-> Blank]
  /\ live = 0
  /\ idmap = [k \in IdKeys |-> NoInst]
  /\ inserts = [i \in Insts |-> 0]
  /\ call = NoCall

LNext ==
  \/ \E attrs \in Payloads : New(attrs)
  \/ \E id \in IdValues : Empty(id)
  \/ \E id \in IdValues : Local(id)
  \/ \E id \in IdValues : Get(id)
  \/ \E attrs \in Payloads : Load(attrs)

(***************************************************************************)
(* The query array: QueryArray#query, the mapper's promise, the promises  *)
(* query derives from it and the jobs they schedule.                       *)
(***************************************************************************)
\* most query() calls the program makes
MaxQueries == 3
\* most then() / catch() calls the program makes
MaxThens == 2

MapperContractError == "MapperContractError"

\* the options object query uses when called with undefined
DefaultOpts == "{}"
\* what the program passes to query: two options objects, or null
UserOpts == {"A", "B", Null}

\* what the class's mapper is: an object whose query returns a promise, no
\* mapper, a mapper without query, a mapper whose query returns no promise
Mappers == {"promise", "none", "nomethod", "nonpromise"}

\* how the mapper's promise settles: fulfilled with payloads that load,
\* fulfilled with a payload that has no id, or rejected
Loadable == <<"1">>
Outcomes == {"fulfilled", "unloadable", "rejected"}
Reason == "e"
\* what a promise resolved with itself is rejected with
ChainingCycle == "TypeError"

\* a promise: its state, its value or reason, the promises of the callbacks
\* query chained on it, the promises resolved with it, and the handlers given
\* to then / catch while it was the array's promise.
\* The promise query starts with: Promise.resolve()
Resolved == [st |-> "fulfilled", v |-> Undef, reactions |-> <<>>, followers |-> {},
             handlers |-> <<>>]
Pending == [st |-> "pending", v |-> Undef, reactions |-> <<>>, followers |-> {},
            handlers |-> <<>>]

RECURSIVE settleAll(_, _, _, _), settle(_, _, _, _)

\* promise p settles as st with value or reason v: the handlers given to
\* then / catch are scheduled; callbacks registered with then(cb) are
\* scheduled when it fulfils and their promises reject with it when it
\* rejects; promises resolved with p follow it
\* (ps is the sequence of promises still to settle as st)
settleAll(q, ps, st, v) ==
  IF ps = <<>> THEN q ELSE settleAll(settle(q, Head(ps), st, v), Tail(ps), st, v)

SetToSeq(S) ==
  LET RECURSIVE toSeq(_)
      toSeq(R) == IF R = {} THEN <<>>
                  ELSE LET x == CHOOSE y \in R : \A z \in R : y <= z
                       IN  <<x>> \o toSeq(R \ {x})
  IN  toSeq(S)

settle(q, p, st, v) ==
  LET rec == q.promises[p]
      q0 == [q EXCEPT !.promises[p] = [Pending EXCEPT !.st = st, !.v = v]]
      q1 == [q0 EXCEPT !.jobs = @ \o [k \in 1..Len(rec.handlers) |->
                                        [kind |-> "user", p |-> rec.handlers[k],
                                         outcome |-> "none"]]]
      q2 == IF st = "fulfilled"
            THEN [q1 EXCEPT !.jobs = @ \o [k \in 1..Len(rec.reactions) |->
                                            [kind |-> "queued", p |-> rec.reactions[k],
                                             outcome |-> "none"]]]
            ELSE settleAll(q1, rec.reactions, st, v)
  IN  settleAll(q2, SetToSeq(rec.followers), st, v)

\* this.__promise__.then(cb): the new promise is the last of q.promises
thenQueued(q) ==
  LET parent == q.promise
      child == Len(q.promises) + 1
      st == q.promises[parent].st
  IN  IF st = "pending"
      THEN [q EXCEPT !.promises = Append([@ EXCEPT ![parent].reactions = Append(@, child)],
                                         Pending)]
      ELSE IF st = "fulfilled"
      THEN [q EXCEPT !.promises = Append(@, Pending),
                     !.jobs = Append(@, [kind |-> "queued", p |-> child, outcome |-> "none"])]
      ELSE [q EXCEPT !.promises = Append(@, [Pending EXCEPT !.st = "rejected",
                                                           !.v = q.promises[parent].v])]

\* then / catch on a promise of their own, which nothing settles
thenOnNewPromise(q, kind) ==
  [q EXCEPT !.handled = Append(@, [kind |-> kind, at |-> Len(q.promises) + 1,
                                   called |-> "none", v |-> Undef]),
            !.promises = Append(@, Pending)]

\* then(f1, f2) and catch(f): this.__promise__.then(f1, f2) and
\* this.__promise__.catch(f).  The handlers are the last of q.handled.
then(q, kind) ==
  LET h == Len(q.handled) + 1
      q1 == [q EXCEPT !.handled = Append(@, [kind |-> kind, at |-> q.promise,
                                             called |-> "none", v |-> Undef])]
  IN  IF q.promises[q.promise].st = "pending"
      THEN [q1 EXCEPT !.promises[q.promise].handlers = Append(@, h)]
      ELSE [q1 EXCEPT !.jobs = Append(@, [kind |-> "user", p |-> h, outcome |-> "none"])]

\* modelClass._callMapper('query', [opts]): fails when the class has no
\* mapper or the mapper has no query method; calls the method otherwise, and
\* fails when what it returns is no promise
callMapper(q, opts) ==
  IF q.mapper \in {"none", "nomethod"} THEN Throw(q, MapperContractError)
  ELSE IF q.mapper = "nonpromise"
  THEN Throw([q EXCEPT !.calls = Append(@, opts)], MapperContractError)
  ELSE [q EXCEPT !.calls = Append(@, opts)]

\* the branch with the mapper call in a try block that drops the exception
dispatchCatches(q, opts) ==
  LET q1 == callMapper([q EXCEPT !.isBusy = TRUE], opts)
      d == Len(q.promises) + 1
  IN  IF q1.err # NoErr THEN [q1 EXCEPT !.err = NoErr]
      ELSE [q1 EXCEPT !.promises = Append(@, Pending),
                      !.inflight = Append(@, [d |-> d, outcome |-> "pending"]),
                      !.promise = d]

\* the branch with an array emptied before the mapper is called
dispatchClears(q, opts) ==
  LET q1 == callMapper([q EXCEPT !.isBusy = TRUE, !.contents = <<>>], opts)
      d == Len(q.promises) + 1
  IN  IF q1.err # NoErr THEN q1
      ELSE [q1 EXCEPT !.promises = Append(@, Pending),
                      !.inflight = Append(@, [d |-> d, outcome |-> "pending"]),
                      !.promise = d]

\* the branch of query for an array that is not busy: the promise then(...)
\* returns is the last of q.promises
dispatch(q, opts) ==
  LET q1 == callMapper([q EXCEPT !.isBusy = TRUE], opts)
      d == Len(q.promises) + 1
  IN  IF q1.err # NoErr THEN q1
      ELSE [q1 EXCEPT !.promises = Append(@, Pending),
                      !.inflight = Append(@, [d |-> d, outcome |-> "pending"]),
                      !.promise = d]

\* query without the test of isBusy
queryIgnoresBusy(q, opts) == dispatch(q, opts)

\* query(opts = {})
query(q, opts) ==
  IF q.isBusy
  THEN LET q1 == IF ~Truthy(q.queued)
                 THEN [thenQueued(q) EXCEPT !.promise = Len(q.promises) + 1]
                 ELSE q
       IN  [q1 EXCEPT !.queued = opts]
  ELSE dispatch(q, opts)

\* the handlers, with a fulfilment handler that adds the loaded models to the
\* array and leaves __error__ alone
onSettledKeepsError(q, d, outcome) ==
  LET q0 == [q EXCEPT !.inflight = SelectSeq(@, LAMBDA c : c.d # d)]
  IN  IF outcome = "fulfilled"
      THEN settle([q0 EXCEPT !.contents = @ \o Loadable, !.isBusy = FALSE],
                  d, "fulfilled", Undef)
      ELSE IF outcome = "unloadable"
      THEN settle(q0, d, "rejected", MissingIdentity)
      ELSE settle([q0 EXCEPT !.isBusy = FALSE, !.error = Reason], d, "rejected", Reason)

\* the handlers, with a rejection handler that does not throw
onSettledSwallows(q, d, outcome) ==
  LET q0 == [q EXCEPT !.inflight = SelectSeq(@, LAMBDA c : c.d # d)]
  IN  IF outcome = "fulfilled"
      THEN settle([q0 EXCEPT !.contents = Loadable, !.isBusy = FALSE, !.error = Undef],
                  d, "fulfilled", Undef)
      ELSE IF outcome = "unloadable"
      THEN settle(q0, d, "rejected", MissingIdentity)
      ELSE settle([q0 EXCEPT !.isBusy = FALSE, !.error = Reason], d, "fulfilled", Undef)

\* the handlers query passes to then, for the mapper call whose derived
\* promise is d
onSettled(q, d, outcome) ==
  LET q0 == [q EXCEPT !.inflight = SelectSeq(@, LAMBDA c : c.d # d)]
  IN  IF outcome = "fulfilled"
      THEN settle([q0 EXCEPT !.contents = Loadable, !.isBusy = FALSE, !.error = Undef],
                  d, "fulfilled", Undef)
      ELSE IF outcome = "unloadable"
      THEN \* loadAll throws: the handler ends there
           settle(q0, d, "rejected", MissingIdentity)
      ELSE settle([q0 EXCEPT !.isBusy = FALSE, !.error = Reason], d, "rejected", Reason)

\* the callback query chains while busy; c is the promise then returned
onQueued(q, c) ==
  LET q1 == query(q, IF q.queued = Undef THEN DefaultOpts ELSE q.queued)
  IN  IF q1.err # NoErr THEN settle([q1 EXCEPT !.err = NoErr], c, "rejected", q1.err)
      ELSE LET q2 == [q1 EXCEPT !.queued = Undef]
               z == q2.promise
           IN  IF z = c THEN settle(q2, c, "rejected", ChainingCycle)
               ELSE IF q2.promises[z].st = "pending"
               THEN [q2 EXCEPT !.promises[z].followers = @ \cup {c}]
               ELSE settle(q2, c, q2.promises[z].st, q2.promises[z].v)

\* the job of the handlers h given to then / catch: f1 is called with the
\* value when the promise fulfilled (catch has no f1), f2 or f with the reason
\* when it rejected
onUser(q, h) ==
  LET pr == q.promises[q.handled[h].at]
  IN  IF pr.st = "fulfilled"
      THEN [q EXCEPT !.handled[h].called =
                        IF q.handled[h].kind = "then" THEN "onFulfilled" ELSE "passed",
                     !.handled[h].v = pr.v]
      ELSE [q EXCEPT !.handled[h].called = "onRejected", !.handled[h].v = pr.v]

\* the machine state at the start of a call or a job
QStart == [mapper |-> mapper, isBusy |-> isBusy, queued |-> queued, error |-> error,
           contents |-> contents, promise |-> promise, promises |-> promises,
           jobs |-> jobs, inflight |-> inflight, calls |-> calls,
           handled |-> handled, err |-> NoErr]

QFinish(q) ==
  /\ isBusy' = q.isBusy
  /\ queued' = q.queued
  /\ error' = q.error
  /\ contents' = q.contents
  /\ promise' = q.promise
  /\ promises' = q.promises
  /\ jobs' = q.jobs
  /\ inflight' = q.inflight
  /\ calls' = q.calls
  /\ handled' = q.handled
  /\ thrown' = q.err
  /\ UNCHANGED <<mapper, avars, lvars, cvars>>

\* what the log keeps of a call or a settlement: the state it happened in
Event(ev, arg) == [ev |-> ev, arg |-> arg, busy |-> isBusy, queued |-> queued,
                   ncalls |-> Len(calls)]

QueriesMade == Len(SelectSeq(log, LAMBDA e : e.ev = "query"))

\* the program calls a.query(opts)
Query(opts) ==
  /\ QueriesMade < MaxQueries
  /\ QFinish(query(QStart, opts))
  /\ log' = Append(log, Event("query", opts))

\* the mapper's promise of an outstanding call settles
Settle(outcome) ==
  /\ \E k \in 1..Len(inflight) :
       /\ inflight[k].outcome = "pending"
       /\ QFinish([QStart EXCEPT !.inflight[k].outcome = outcome,
                                 !.jobs = Append(@, [kind |-> "settled", p |-> inflight[k].d,
                                                     outcome |-> outcome])])
  /\ log' = Append(log, Event("settle", outcome))

\* the oldest promise job runs
RunJob ==
  /\ jobs # <<>>
  /\ LET job == Head(jobs)
         q == [QStart EXCEPT !.jobs = Tail(jobs)]
     IN  IF job.kind = "settled"
         THEN QFinish([onSettled(q, job.p, job.outcome) EXCEPT !.err = thrown])
         ELSE IF job.kind = "queued"
         THEN QFinish([onQueued(q, job.p) EXCEPT !.err = thrown])
         ELSE QFinish([onUser(q, job.p) EXCEPT !.err = thrown])
  /\ UNCHANGED log

\* the program calls a.then(f1, f2) or a.catch(f)
Then(kind) ==
  /\ Len(handled) < MaxThens
  /\ QFinish([then(QStart, kind) EXCEPT !.err = thrown])
  /\ log' = Append(log, Event(kind, Undef))

\* new QueryArray(modelClass)
QInit ==
  /\ mapper \in Mappers
  /\ isBusy = FALSE
  /\ queued = Undef
  /\ error = Undef
  /\ contents = <<>>
  /\ promise = 1
  /\ promises = <<Resolved>>
  /\ jobs = <<>>
  /\ inflight = <<>>
  /\ calls = <<>>
  /\ log = <<>>
  /\ handled = <<>>
  /\ thrown = NoErr

QNext ==
  \/ \E opts \in UserOpts : Query(opts)
  \/ \E outcome \in Outcomes : Settle(outcome)
  \/ RunJob

(***************************************************************************)
(* Class-level declarations: Model.registerClass and the class registry,   *)
(* Model.attr and the accessors it defines, and the descriptor maps that   *)
(* Model.hasOne / Model.hasMany keep in prototype.associations.            *)
(***************************************************************************)
\* the last class-level call
NoCCall == [op |-> "none", a1 |-> Undef, a2 |-> Undef, err |-> NoErr, ret |-> Undef]

\* ---- Model.registerClass
\* subclasses of Model: class A1 extends Model {}, class A2 extends Model {}
\* and an anonymous class
Subclasses == {"A1", "A2", "anon"}
\* what the program hands over as klass: a subclass, Model itself, a function
\* that is no subclass, a plain object, null or undefined
KlassArgs == Subclasses \cup {"Model", "fn", "obj", Null, Undef}
\* what it hands over as name: nothing, null, the empty string, a name, or
\* the name of a property of Object.prototype
NameArgs == {Undef, Null, "", "A", "A1", "toString"}
\* the keys registeredClasses can get
RegNames == {"A", "A1", "A2"}
Unbound == "unbound"
\* properties every object inherits from Object.prototype
ObjectPrototypeKeys == {"toString"}

\* the errors registerClass throws, by their messages
NotASubclass == "is not a subclass of Ryno.Model"
NoNameGiven == "no name given for class"
AlreadyRegistered == "has already been registered"
RegistrationErrors == {NotASubclass, NoNameGiven, AlreadyRegistered}
\* reading a property of undefined or null
TypeErrorThrown == "TypeError"

\* klass.name
klassName(klass) ==
  IF klass = "anon" THEN ""
  ELSE IF klass = "obj" THEN Undef
  ELSE klass

\* typeof klass === 'function'
IsFunction(klass) == klass \in Subclasses \cup {"Model", "fn"}

\* klass.prototype instanceof Model
PrototypeIsModel(klass) == klass \in Subclasses

\* name in registeredClasses
InRegistry(r, name) ==
  \/ name \in ObjectPrototypeKeys
  \/ name \in DOMAIN r /\ r[name] # Unbound

\* static registerClass(klass, name = klass.name): the default of name is
\* evaluated on entry, before the checks
registerClass(s, klass, name) ==
  IF name = Undef /\ klass \in {Undef, Null} THEN Throw(s, TypeErrorThrown)
  ELSE LET n == IF name = Undef THEN klassName(klass) ELSE name
       IN  IF ~IsFunction(klass) \/ ~PrototypeIsModel(klass)
           THEN Throw(s, NotASubclass)
           ELSE IF n \in {Undef, Null, ""} THEN Throw(s, NoNameGiven)
           ELSE IF InRegistry(s.registeredClasses, n) THEN Throw(s, AlreadyRegistered)
           ELSE [s EXCEPT !.registeredClasses[n] = klass, !.displayName[klass] = n]

RStart == [registeredClasses |-> registeredClasses, displayName |-> displayName,
           err |-> NoErr]

\* the program calls Model.registerClass(klass, name)
RegisterClass(klass, name) ==
  /\ LET s == registerClass(RStart, klass, name)
     IN  /\ registeredClasses' = s.registeredClasses
         /\ displayName' = s.displayName
         /\ ccall' = [op |-> "registerClass", a1 |-> klass, a2 |-> name,
                      err |-> s.err, ret |-> Undef]
  /\ UNCHANGED <<avars, lvars, qvars, attrDecl, slot, shadow, ownAssociations, maps,
                 declared>>

RInit ==
  /\ registeredClasses = [n \in RegNames |-> Unbound]
  /\ displayName = [k \in Subclasses |-> Undef]

\* ---- Model.attr
\* the built-in types registered with registerAttr
AttrTypes == {"identity", "string", "number", "boolean", "date", "datetime"}
\* the default option: 'zzz', or no default
DefaultValue == "zzz"
AttrOpts == {Absent, DefaultValue}
\* the Date object of the time value 7
Date7 == "Date(7)"
\* a string that parses as a date, and the Date it parses to
DateStr == "1970-01-02"
DateOfStr == "Date(1970-01-02)"
\* the values the program writes: undefined, null, a number, a numeric
\* string, a date string, other text, the booleans and a Date
AttrValues == {Undef, Null, Num7, Str7, DateStr, "s1", True, False, Date7}

IsNumber(v) == v = Num7
IsString(v) == v \in {Str7, DateStr, "s1"}
IsDate(v) == v \in {Date7, DateOfStr}

\* parsers.parseNumber: the number a numeric string denotes, null otherwise
parseNumber(v) == IF v = Str7 THEN Num7 ELSE Null

\* parsers.parseDate / parsers.parseDateTime: the Date a date string denotes,
\* null otherwise
parseDate(v) == IF v = DateStr THEN DateOfStr ELSE Null

\* IdentityAttr.coerce
IdentityAttrCoerce(v) == v

\* NumberAttr.coerce
NumberAttrCoerce(v) ==
  IF IsNumber(v) THEN v
  ELSE IF IsString(v) THEN parseNumber(v)
  ELSE Null

\* BooleanAttr.coerce: !!v
BooleanAttrCoerce(v) == IF v \in {Undef, Null, False} THEN False ELSE True

\* DateAttr.coerce and DateTimeAttr.coerce throw for a value that is not
\* null, undefined, a Date, a number or a string
DateAttrThrows(v) == ~(v \in {Undef, Null} \/ IsDate(v) \/ IsNumber(v) \/ IsString(v))

\* DateAttr.coerce and DateTimeAttr.coerce, when they return
DateAttrCoerce(v) ==
  IF v \in {Undef, Null} \/ IsDate(v) THEN v
  ELSE IF IsNumber(v) THEN Date7
  ELSE parseDate(v)

\* the converter registered for a type: whether its coerce throws, and what
\* it returns
coerceThrows(type, v) == type \in {"date", "datetime"} /\ DateAttrThrows(v)

coerce(type, v) ==
  IF type = "identity" THEN IdentityAttrCoerce(v)
  ELSE IF type = "string" THEN StringAttrCoerce(v)
  ELSE IF type = "number" THEN NumberAttrCoerce(v)
  ELSE IF type = "boolean" THEN BooleanAttrCoerce(v)
  ELSE DateAttrCoerce(v)

\* attr(name, type, opts): def is opts.default when opts has the key
NoAttrDecl == [type |-> "none", def |-> Undef]
attr(type, opts) == [type |-> type, def |-> IF opts = Absent THEN Undef ELSE opts]
AttrDecls == {attr(type, opts) : type \in AttrTypes, opts \in AttrOpts}

\* the setter attr defines: the coerced value first, then the raw one
attrSet(a, v) ==
  IF coerceThrows(a.decl.type, v) THEN Throw(a, TypeMismatch)
  ELSE [a EXCEPT !.slot = coerce(a.decl.type, v), !.shadow = v]

\* the getter attr defines
attrGet(a) == IF a.slot = Undef THEN a.decl.def ELSE a.slot

TStart == [decl |-> attrDecl, slot |-> slot, shadow |-> shadow, err |-> NoErr]

\* the program writes m.<name> = v
SetAttr(v) ==
  /\ LET a == attrSet(TStart, v)
     IN  /\ slot' = a.slot
         /\ shadow' = a.shadow
         /\ ccall' = [op |-> "set", a1 |-> v, a2 |-> Undef, err |-> a.err,
                      ret |-> Undef]
  /\ UNCHANGED <<avars, lvars, qvars, registeredClasses, displayName, attrDecl,
                 ownAssociations, maps, declared>>

\* the program reads m.<name>
GetAttr ==
  /\ ccall' = [op |-> "get", a1 |-> Undef, a2 |-> Undef, err |-> NoErr,
               ret |-> attrGet(TStart)]
  /\ UNCHANGED <<avars, lvars, qvars, registeredClasses, displayName, attrDecl, slot,
                 shadow, ownAssociations, maps, declared>>

\* no attribute is declared
TIdle == attrDecl = NoAttrDecl /\ slot = Undef /\ shadow = Undef

\* a new instance of a class that declared one attribute
TInit == attrDecl \in AttrDecls /\ slot = Undef /\ shadow = Undef

\* ---- prototype.associations
\* most hasOne / hasMany declarations the program makes
MaxDecls == 3

\* class Base extends Model {}; class Sub1 extends Base {}; class Sub2
\* extends Base {}
DClasses == {"Model", "Base", "Sub1", "Sub2"}
Parent(c) == IF c = "Base" THEN "Model" ELSE "Base"
\* the classes whose prototype chain holds the prototype of c, c included
SelfAndDescendants(c) ==
  IF c = "Model" THEN DClasses
  ELSE IF c = "Base" THEN {"Base", "Sub1", "Sub2"}
  ELSE {c}

AssocNames == {"x", "y"}
NoMap == 0
NoEntries == [n \in AssocNames |-> NoDesc]
\* Model.prototype.associations = {}
RootMap == [proto |-> NoMap, entries |-> NoEntries]

\* c.prototype.associations: the own property, or the one of the nearest
\* class up the chain that has one
RECURSIVE protoAssociations(_, _)
protoAssociations(s, c) ==
  IF s.own[c] # NoMap THEN s.own[c]
  ELSE protoAssociations(s, Parent(c))

\* map[name], through the prototypes of the map
RECURSIVE MapGet(_, _, _)
MapGet(s, ref, name) ==
  IF ref = NoMap THEN NoDesc
  ELSE IF s.maps[ref].entries[name] # NoDesc THEN s.maps[ref].entries[name]
  ELSE MapGet(s, s.maps[ref].proto, name)

\* what instances of c find in this.own
DescriptorsOf(s, c) == [n \in AssocNames |-> MapGet(s, protoAssociations(s, c), n)]

\* hasOne and hasMany: the class gets a map of its own,
\* created from the one its prototype chain gives at that moment, and the
\* descriptor is stored in it
declare(s, c, desc) ==
  LET s1 == IF s.own[c] = NoMap
            THEN [s EXCEPT !.maps = Append(@, [proto |-> protoAssociations(s, c),
                                               entries |-> NoEntries]),
                           !.own[c] = Len(s.maps) + 1]
            ELSE s
  IN  [s1 EXCEPT !.maps[s1.own[c]].entries[desc.name] = desc]

DStart == [own |-> ownAssociations, maps |-> maps]

DFinish(s, op, c, name) ==
  /\ ownAssociations' = s.own
  /\ maps' = s.maps
  /\ declared' = declared \cup {[c |-> c, name |-> name]}
  /\ ccall' = [op |-> op, a1 |-> c, a2 |-> name, err |-> NoErr, ret |-> Undef]
  /\ UNCHANGED <<avars, lvars, qvars, registeredClasses, displayName, attrDecl, slot,
                 shadow>>

\* the program calls c.hasOne(name, Bar)
HasOne(c, name) ==
  /\ Cardinality(declared) < MaxDecls
  /\ DFinish(declare(DStart, c, hasOne(name, "Bar", Undef)), "hasOne", c, name)

\* the program calls c.hasMany(name, Bar)
HasMany(c, name) ==
  /\ Cardinality(declared) < MaxDecls
  /\ DFinish(declare(DStart, c, hasMany(name, "Bar", Undef)), "hasMany", c, name)

DInit ==
  /\ ownAssociations = [c \in DClasses |-> IF c = "Model" THEN 1 ELSE NoMap]
  /\ maps = <<RootMap>>
  /\ declared = {}

\* no class-level call is made
CIdle == RInit /\ TIdle /\ DInit /\ ccall = NoCCall

(***************************************************************************)
(* The specifications.                                                     *)
(***************************************************************************)
\* the classes of the loader declare no association
AIdle ==
  /\ decl = [Foo |-> NoDesc, Bar |-> NoDesc]
  /\ NoAssociations

\* the association operations, on instances that are never loaded
Init == AInit /\ LInit /\ QInit /\ CIdle /\ mapper = "promise"

Next == ANext

Spec == Init /\ [][Next]_vars

\* the loader and the identity map
InitLoad == AIdle /\ LInit /\ QInit /\ CIdle /\ mapper = "promise"

NextLoad == LNext

SpecLoad == InitLoad /\ [][NextLoad]_vars

\* construction and assignments to the id property
NextId ==
  \/ \E attrs \in Payloads : New(attrs)
  \/ \E i \in Insts : \E id \in IdKeys : SetId(i, id)

SpecId == InitLoad /\ [][NextId]_vars

\* the loader given payloads that name associations as well
NextGraph ==
  \/ LNext
  \/ \E attrs \in GraphPayloads : Load(attrs)

SpecGraph == InitLoad /\ [][NextGraph]_vars

\* the loader given payloads with keys the class does not declare
NextKeys ==
  \/ LNext
  \/ \E attrs \in KeyPayloads : Load(attrs)

SpecKeys == InitLoad /\ [][NextKeys]_vars

\* one query array
InitQuery == AIdle /\ LInit /\ QInit /\ CIdle

NextQuery == QNext

SpecQuery == InitQuery /\ [][NextQuery]_vars

\* one query array and the handlers given to its then and catch
NextThen ==
  \/ QNext
  \/ \E kind \in {"then", "catch"} : Then(kind)

SpecThen == InitQuery /\ [][NextThen]_vars

\* calls of Model.registerClass
InitRegister == AIdle /\ LInit /\ QInit /\ CIdle /\ mapper = "promise"

NextRegister == \E klass \in KlassArgs : \E name \in NameArgs : RegisterClass(klass, name)

SpecRegister == InitRegister /\ [][NextRegister]_vars

\* writes and reads of an attribute of one instance, for each built-in type,
\* declared with and without a default
InitAttr ==
  /\ AIdle /\ LInit /\ QInit /\ mapper = "promise"
  /\ RInit /\ TInit /\ DInit /\ ccall = NoCCall

NextAttr ==
  \/ \E v \in AttrValues : SetAttr(v)
  \/ GetAttr

SpecAttr == InitAttr /\ [][NextAttr]_vars

\* hasOne / hasMany declarations of a class, its subclasses and Model
NextDeclare ==
  \/ \E c \in DClasses : \E name \in AssocNames : HasOne(c, name)
  \/ \E c \in DClasses : \E name \in AssocNames : HasMany(c, name)

SpecDeclare == InitRegister /\ [][NextDeclare]_vars

(***************************************************************************)
(* Properties of the associations.                                         *)
(***************************************************************************)
\* o.<name> of a hasMany property: the contents of the array the slot holds
Val(o) == heap[many[o]]

\* the number of times m occurs in the array a
Count(a, m) == Cardinality({i \in 1..Len(a) : a[i] = m})

Members(a) == {a[i] : i \in 1..Len(a)}

OneOne == decl["Foo"].type = "hasOne" /\ decl["Bar"].type = "hasOne"
ManyMany == decl["Foo"].type = "hasMany" /\ decl["Bar"].type = "hasMany"

\* C1: with Foo.bar <-> Bar.foo both hasOne, in every reachable state
\* a.bar === b holds if and only if b.foo === a.
C1_HasOneSymmetry ==
  OneOne => \A a \in Obj, b \in Obj : (one[a] = b) <=> (one[b] = a)

\* C2: with Foo.bars <-> Bar.foos both hasMany, after f.addBars(b) f.bars
\* contains b and b.foos contains f exactly once; after f.removeBars(b) (from
\* either side) b is not in f.bars, f is not in b.foos, and the other members
\* of both collections are untouched.
C2_HasManySymmetry ==
  [][ManyMany =>
        \A f \in Obj : \A b \in Passable(f) \ {f} :
          /\ (AddHasMany(f, <<b>>) /\ raised' = NoErr) =>
               /\ Count(Val(f)', b) >= 1
               /\ Count(Val(b)', f) = 1
          /\ (RemoveHasMany(f, <<b>>) /\ raised' = NoErr) =>
               /\ Count(Val(f)', b) = 0
               /\ Count(Val(b)', f) = 0
               /\ \A x \in Obj \ {b} : Count(Val(f)', x) = Count(Val(f), x)
               /\ \A x \in Obj \ {f} : Count(Val(b)', x) = Count(Val(b), x)
    ]_vars

\* C3: every model occurs at most once in every hasMany collection, in every
\* reachable state.
C3_NoDuplicateMembership ==
  \A o \in Obj : decl[ClassOf(o)].type = "hasMany" =>
    \A m \in Obj : Count(Val(o), m) <= 1

\* C4: with an inverse hasMany, f.bars = a (a new array) leaves f.bars equal
\* to a, f absent from the inverse side of every old member not in a, f on the
\* inverse side of every member of a, and exactly once on the inverse side of
\* a model that is in both the old array and a.
C4_HasManyReplacement ==
  [][ManyMany =>
        \A f \in Obj : \A a \in ArgLists(f) :
          (SetHasMany(f, a) /\ raised' = NoErr) =>
            /\ Val(f)' = a
            /\ \A b \in Members(Val(f)) \ Members(a) : Count(Val(b)', f) = 0
            /\ \A b \in Members(a) : Count(Val(b)', f) >= 1
            /\ \A b \in Members(Val(f)) \cap Members(a) : Count(Val(b)', f) = 1
    ]_vars

\* C10: with Foo.bar <-> Bar.foo both hasOne, right after f.bar = v: f.bar is
\* v; when v is a model, v.foo is f; when f.bar held another model before, that
\* model's foo is undefined, and it was detached before v was attached.
C10_HasOneSetClear ==
  [][OneOne =>
        \A f \in Obj : \A v \in Passable(f) \cup {Undef, Null} :
          (SetHasOne(f, v) /\ raised' = NoErr) =>
            LET prev == one[f]
                made == hasOneSet(Start, f, decl[ClassOf(f)], v, TRUE).trace
            IN  /\ one'[f] = v
                /\ Truthy(v) => one'[v] = f
                /\ (Truthy(prev) /\ prev # v) => one'[prev] = Undef
                /\ made = (IF Truthy(prev) THEN <<<<"inverseRemoved", prev, f>>>> ELSE <<>>)
                           \o (IF Truthy(v) THEN <<<<"inverseAdded", v, f>>>> ELSE <<>>)
    ]_vars

\* f1.bar was moved from b1 to b2: b1 is detached, b2 is attached, and f2,
\* which held b1 before f1 took it, still refers to it
C10_Witness ==
  /\ OneOne
  /\ raised = NoErr
  /\ one["f1"] = "b2" /\ one["b2"] = "f1"
  /\ one["b1"] = Undef /\ one["f2"] = "b1"
  /\ one["f2"] = "b1" /\ one["b1"] = Undef

OneMany == decl["Foo"].type = "hasOne" /\ decl["Bar"].type = "hasMany"
ManyOne == decl["Foo"].type = "hasMany" /\ decl["Bar"].type = "hasOne"

\* the array a without its first occurrence of m
RemoveFirst(a, m) == IF indexOf(a, m) = 0 THEN a ELSE splice(a, indexOf(a, m))

\* the array a without m
Without(a, m) == SelectSeq(a, LAMBDA x : x # m)

\* C11: with Foo.bar (hasOne) <-> Bar.foos (hasMany), f.bar = b puts f at the
\* end of b.foos, behind the owners assigned before it; f.bar = null (or
\* undefined) leaves the previous b.foos without f and with its other members
\* in the order they had.
C11_HasOneAppendsToInverse ==
  [][OneMany =>
        \A f \in Foos : \A v \in Bars \cup {Undef, Null} :
          (SetHasOne(f, v) /\ raised' = NoErr) =>
            \A prev \in {one[f]} :
              /\ v \in Bars =>
                   Val(v)' = Append(IF prev = v THEN RemoveFirst(Val(v), f) ELSE Val(v), f)
              /\ (v \notin Bars /\ prev \in Bars) =>
                   Val(prev)' = Without(Val(prev), f)
    ]_vars

\* C12: with Foo.bars (hasMany) <-> Bar.foo (hasOne): after f.addBars(...) and
\* after f.bars = a, b.foo is f for every b added or assigned; after
\* f.removeBars(...), f.clearBars() and f.bars = [], b.foo is undefined for
\* every b that was removed, and a model still in f.bars whose foo was f still
\* has foo f.
C12_HasManySetsInverseOne ==
  [][ManyOne =>
        \A f \in Foos :
          /\ \A models \in ArgLists(f) :
               (AddHasMany(f, models) /\ raised' = NoErr) =>
                 \A b \in Members(models) : one'[b] = f
          /\ \A a \in ArgLists(f) :
               (SetHasMany(f, a) /\ raised' = NoErr) =>
                 /\ \A b \in Members(a) : one'[b] = f
                 /\ a = <<>> => \A b \in Members(Val(f)) : one'[b] = Undef
          /\ (ClearHasMany(f) /\ raised' = NoErr) =>
               \A b \in Members(Val(f)) : one'[b] = Undef
          /\ \A models \in ArgLists(f) :
               (RemoveHasMany(f, models) /\ raised' = NoErr) =>
                 /\ \A b \in Members(models) \cap Members(Val(f)) : one'[b] = Undef
                 /\ \A m \in Members(Val(f)') : one[m] = f => one'[m] = f
    ]_vars

\* the arrays a caller may assign to o's hasMany property that hold an
\* instance of o's own class
MixedLists == [o \in Obj |-> {a \in ArgLists(o) : \E i \in 1..Len(a) : ClassOf(a[i]) = ClassOf(o)}]

\* C13: in every reachable state, o.<name> = a for a hasMany property, a
\* holding an object that is not of the associated class, raises TypeMismatch
\* and leaves every collection and every hasOne reference as it was.
C13_HasManySetAllOrNothing ==
  \A o \in Obj : decl[ClassOf(o)].type = "hasMany" =>
    \A a \in MixedLists[o] :
      LET s == hasManySet([Start EXCEPT !.heap[FreshRef] = a], o, decl[ClassOf(o)], FreshRef)
      IN  /\ \E i \in 1..Len(a) : ~checkAssociatedType(decl[ClassOf(o)], a[i])
          /\ s.err = TypeMismatch
          /\ s.one = one
          /\ Renamed(s.many) = many
          /\ Collect(s.heap, s.many) = heap

\* f1.bars = [b1, f1] raised while f1.bars was [b1] and b1.foos was [f1]
C13_Witness ==
  /\ ManyMany
  /\ failed = "hasManySet" /\ raised = TypeMismatch
  /\ Val("f1") = <<"b1">> /\ Val("b1") = <<"f1">>

\* C14: o.<name> = v for a hasOne property, v an object that is not of the
\* associated class, raises TypeMismatch at the call and leaves every hasOne
\* reference and every collection as it was.
C14_HasOneTypeCheck ==
  [][\A o \in Obj : \A v \in Passable(o) :
       (/\ ~checkAssociatedType(decl[ClassOf(o)], v)
        /\ SetHasOne(o, v))
       => /\ raised' = TypeMismatch
          /\ failed' = "hasOneSet"
          /\ UNCHANGED <<one, many, heap>>
    ]_vars

\* f1.bar = f1 raised while f1.bar was b1 and b1.foo was f1
C14_Witness ==
  /\ OneOne
  /\ failed = "hasOneSet" /\ raised = TypeMismatch
  /\ one["f1"] = "b1" /\ one["b1"] = "f1"

\* the inverse calls fn an operation on o makes for the models ms, in order
Hops(fn, ms, o) == [k \in 1..Len(ms) |-> <<fn, ms[k], o>>]

\* the inverse calls an assignment of v to the hasOne property of o makes
HopsOfSet(o, v) ==
  (IF Truthy(one[o]) THEN <<<<"inverseRemoved", one[o], o>>>> ELSE <<>>)
  \o (IF Truthy(v) THEN <<<<"inverseAdded", v, o>>>> ELSE <<>>)

\* C29: from every state, a direct mutation of an association that returns
\* has made the inverse calls of its own detaches and attaches and no other:
\* one call per model detached or attached, each made by the mutated model
\* itself, none by a model whose inverse side was being updated; without an
\* inverse no call is made.
C29_OneHop ==
  \A o \in Obj :
    LET d == decl[ClassOf(o)]
        inv == Truthy(d.inverse)
        own(s) == \A k \in 1..Len(s.trace) : s.trace[k][3] = o
    IN  /\ d.type = "hasOne" =>
             \A v \in Passable(o) \cup {Undef, Null} :
               LET s == hasOneSet(Start, o, d, v, TRUE)
               IN  s.err = NoErr =>
                     /\ own(s)
                     /\ s.trace = IF inv THEN HopsOfSet(o, v) ELSE <<>>
        /\ d.type = "hasMany" =>
             \A a \in ArgLists(o) :
               LET set == hasManySet([Start EXCEPT !.heap[FreshRef] = a], o, d, FreshRef)
                   add == hasManyAdd(Start, o, d, a, TRUE)
                   rem == hasManyRemove(Start, o, d, a, TRUE)
               IN  /\ set.err = NoErr =>
                        /\ own(set)
                        /\ set.trace = IF inv THEN Hops("inverseRemoved", Val(o), o)
                                                   \o Hops("inverseAdded", a, o)
                                       ELSE <<>>
                   /\ add.err = NoErr =>
                        /\ own(add)
                        /\ add.trace = IF inv THEN Hops("inverseAdded", a, o) ELSE <<>>
                   /\ rem.err = NoErr =>
                        /\ own(rem)
                        /\ Len(rem.trace) <= Len(a)
                        /\ \A k \in 1..Len(rem.trace) :
                             /\ rem.trace[k][1] = "inverseRemoved"
                             /\ rem.trace[k][2] \in Members(Val(o)) \cap Members(a)
                        /\ ~inv => rem.trace = <<>>

\* f1.bar = b1 was followed by f2.bar = b1: b1.foos is [f1, f2]
C29_Witness ==
  /\ OneMany
  /\ raised = NoErr
  /\ one["f1"] = "b1" /\ one["f2"] = "b1"
  /\ Val("b1") = <<"f1", "f2">>

\* C33: with a hasOne association paired with a hasMany inverse (Foo.bar <->
\* Bar.foos, or Foo.bars <-> Bar.foo), in every reachable state f.bar === b
\* holds if and only if b.foos contains f.
C33_OneToManyConsistency ==
  \A f \in Obj, b \in Obj :
    (decl[ClassOf(f)].type = "hasOne" /\ decl[ClassOf(b)].type = "hasMany"
     /\ ClassOf(f) # ClassOf(b))
    => (one[f] = b <=> Count(Val(b), f) >= 1)

\* C34: with Foo.bars <-> Bar.foos both hasMany, in every reachable state b
\* occurs in f.bars as many times as f occurs in b.foos.
C34_ManyToManyConsistency ==
  ManyMany =>
    \A f \in Foos, b \in Bars : Count(Val(f), b) = Count(Val(b), f)

\* C35: an add or a remove on an instance whose hasMany property was assigned
\* the array another instance of its class holds leaves that instance's
\* collection, and the inverse sides of the models in it, as they were.
C35_CollectionsNotShared ==
  [][\A f \in Obj, g \in Obj :
       (f # g /\ ClassOf(f) = ClassOf(g) /\ decl[ClassOf(f)].type = "hasMany"
        /\ many[f] = many[g])
       => \A models \in ArgLists(f) :
            ((AddHasMany(f, models) \/ RemoveHasMany(f, models)) /\ raised' = NoErr)
            => /\ Val(g)' = Val(g)
               /\ \A m \in Members(Val(g)) :
                    IF decl[ClassOf(m)].type = "hasMany"
                    THEN Count(Val(m)', g) = Count(Val(m), g)
                    ELSE one'[m] = g <=> one[m] = g
    ]_vars

\* the arguments before the first one that fails the type check
Accepted(o, models) ==
  LET k == CHOOSE i \in 1..Len(models) :
             /\ ~checkAssociatedType(decl[ClassOf(o)], models[i])
             /\ \A j \in 1..(i - 1) : checkAssociatedType(decl[ClassOf(o)], models[j])
  IN  SubSeq(models, 1, k - 1)

\* C36: from every state, o.add<Name>(...models) with a model of the wrong
\* type among the arguments raises TypeMismatch and leaves what the add of the
\* arguments before that model leaves: they are appended to the collection,
\* in order, with their inverse sides attached, and no later argument is.
C36_AddNotAtomic ==
  \A o \in Obj : decl[ClassOf(o)].type = "hasMany" =>
    \A models \in MixedLists[o] :
      LET d == decl[ClassOf(o)]
          all == hasManyAdd(Start, o, d, models, TRUE)
          first == hasManyAdd(Start, o, d, Accepted(o, models), TRUE)
      IN  first.err = NoErr =>
            /\ all.err = TypeMismatch
            /\ all.heap[all.many[o]] = Val(o) \o Accepted(o, models)
            /\ all.one = first.one
            /\ all.many = first.many
            /\ all.heap = first.heap
            /\ all.trace = IF Truthy(d.inverse)
                           THEN Hops("inverseAdded", Accepted(o, models), o)
                           ELSE <<>>

\* f1.addBars(b1, f1) raised at f1 after b1 was added: f1.bars is [b1] and
\* b1.foos is [f1]
C36_Witness ==
  /\ ManyMany
  /\ failed = "hasManyAdd" /\ raised = TypeMismatch
  /\ Val("f1") = <<"b1">> /\ Val("b1") = <<"f1">>
  /\ Val("f2") = <<>> /\ Val("b2") = <<>>

(***************************************************************************)
(* Properties of the identity map and the loader.                          *)
(***************************************************************************)
\* C5: no two distinct instances of the class carry the same non-null id, in
\* every state reached by load, local, empty, get and construction.
C5_OneInstancePerId ==
  \A i \in 1..live, j \in 1..live :
    (i # j /\ inst[i].id \notin {Undef, Null}) => inst[i].id # inst[j].id

\* C6: a load that returns gives the instance local and get return for the
\* id, with every attribute the payload names holding the payload's value as
\* the attribute's setter stores it; and a load that directly follows a load
\* of the same id returns the same instance as that load.
C6_LoadIdentity ==
  [][\A attrs \in Payloads :
       (Load(attrs) /\ call'.err = NoErr) =>
         /\ call.reload' => call'.ret = call.ret
         /\ local(LStart, attrs.id)'.ret = call'.ret
         /\ get(LStart, attrs.id)'.ret = call'.ret
         /\ local(LStart, attrs.id)'.live = live'
         /\ attrs.str # Absent => inst'[call'.ret].str = StringAttrCoerce(attrs.str)
    ]_vars

\* id 1 was loaded twice in a row, the second time with str: 7, while another
\* instance exists
C6_Witness ==
  /\ call.op = "load" /\ call.reload /\ call.err = NoErr
  /\ call.id = "1" /\ call.ret = 2 /\ live = 2
  /\ inst[2].str = Str7
  /\ inst[2].sourceState = LOADED


\* the payload {id: 1, tags: [...]} with the tags given as bare ids
TagsPayload(ids) ==
  [NoAttrs EXCEPT !.id = "1", !.tags = Array([k \in 1..Len(ids) |-> BareId(ids[k])])]

\* C15: loading a payload a second time changes nothing the first load left:
\* both loads return the same instance, LOADED, with the payload's attribute
\* values, and a hasMany association the payload names has the payload's
\* members, each once.
C15_LoadIdempotent ==
  \A attrs \in Payloads \cup GraphPayloads :
    attrs.id \in Ids \ {Id0} =>
      LET m1 == load(LStart, attrs)
          m2 == load(m1, attrs)
      IN  m1.err # OutOfInstances =>
            /\ m1.err = NoErr
            /\ m2.err = NoErr
            /\ m2.ret = m1.ret
            /\ m1.inst[m1.ret].sourceState = LOADED
            /\ m2.inst = m1.inst
            /\ m2.idmap = m1.idmap
            /\ m2.live = m1.live
            /\ attrs.str # Absent => m2.inst[m2.ret].str = StringAttrCoerce(attrs.str)
            /\ attrs.tags.given =>
                 /\ Len(m2.inst[m2.ret].tags) = Len(attrs.tags.items)
                 /\ \A t \in Insts : Count(m2.inst[m2.ret].tags, t) <= 1

\* C16: load raises MissingIdentity exactly when the payload has no id or a
\* null one, every other id being accepted; and a load that raises it creates
\* no instance, registers none and modifies none.
C16_LoadRequiresIdentity ==
  [][\A attrs \in Payloads :
       Load(attrs) =>
         /\ call'.err = MissingIdentity <=> attrs.id \in {Absent, Undef, Null}
         /\ call'.err = MissingIdentity => UNCHANGED <<inst, live, idmap>>
    ]_vars

\* C17: a load that returns leaves the instance it returns LOADED and not
\* busy, whatever its state was; when the identity map held an instance for
\* the id (an EMPTY placeholder included), that instance is the one returned.
C17_LoadedAfterLoad ==
  [][(call'.op = "load" /\ call'.err = NoErr) =>
       /\ inst'[call'.ret].sourceState = LOADED
       /\ inst'[call'.ret].isBusy = False
       /\ idmap[call'.id] # NoInst => call'.ret = idmap[call'.id]
    ]_vars

\* the EMPTY placeholder of id 1 was loaded with str: 's1', while another
\* instance exists
C17_Witness ==
  /\ call.op = "load" /\ call.err = NoErr /\ call.was = EMPTY
  /\ call.id = "1" /\ live = 2
  /\ inst[call.ret].sourceState = LOADED
  /\ inst[call.ret].isBusy = False
  /\ inst[call.ret].str = "s1"

\* C18: a load whose payload has a value for the hasOne association returns,
\* and the association then points to the instance the identity map has for
\* the value's id, whose inverse side holds the loaded model: for a nested
\* payload that instance is LOADED with the nested attributes; for a bare id
\* it is the instance the identity map had, or else a new EMPTY one.
C18_LoadResolvesHasOne ==
  [][\A attrs \in GraphPayloads :
       (/\ attrs.author.kind \in {"id", "nested"}
        /\ attrs.tags.items = <<>>
        /\ Load(attrs))
       => /\ call'.err = NoErr
          /\ \A p \in {call'.ret} : \A a \in {idmap'[attrs.author.id]} :
               /\ a # NoInst
               /\ inst'[p].author = ToModel(a)
               /\ Count(inst'[a].posts, p) >= 1
               /\ attrs.author.kind = "nested" =>
                    /\ inst'[a].sourceState = LOADED
                    /\ inst'[a].str = attrs.author.str
               /\ attrs.author.kind = "id" =>
                    IF idmap[attrs.author.id] # NoInst
                    THEN /\ a = idmap[attrs.author.id]
                         /\ inst'[a].sourceState = inst[a].sourceState
                    ELSE /\ inst'[a].id = attrs.author.id
                         /\ inst'[a].sourceState = EMPTY
    ]_vars

\* C19: loading {id: 1, tags: [2, 3]} and then {id: 1, tags: [3]} leaves the
\* tags of model 1 holding the model of id 3 only; the inverse collection of
\* the model of id 2 does not hold model 1, that of the model of id 3 holds it
\* once.
C19_LoadReplacesMembership ==
  LET m1 == load(LStart, TagsPayload(<<"2", "3">>))
      m2 == load(m1, TagsPayload(<<"3">>))
  IN  m1.err # OutOfInstances =>
        /\ m1.err = NoErr
        /\ m2.err = NoErr
        /\ IdMapGet(m2, "2") # NoInst
        /\ IdMapGet(m2, "3") # NoInst
        /\ m2.inst[m2.ret].tags = <<IdMapGet(m2, "3")>>
        /\ Count(m2.inst[IdMapGet(m2, "2")].tagged, m2.ret) = 0
        /\ Count(m2.inst[IdMapGet(m2, "3")].tagged, m2.ret) = 1

\* C20: local(id) makes no mapper call, whatever the id and the identity map
\* hold; it returns the instance the identity map has for the id, changing
\* nothing, and otherwise a new instance with that id and sourceState EMPTY.
C20_LocalNeverCallsMapper ==
  [][\A id \in IdValues :
       Local(id) =>
         /\ calls' = calls
         /\ idmap[id] # NoInst =>
              /\ call'.err = NoErr
              /\ call'.ret = idmap[id]
              /\ UNCHANGED <<inst, live, idmap>>
         /\ (idmap[id] = NoInst /\ call'.err = NoErr) =>
              /\ call'.ret = live + 1
              /\ inst'[call'.ret].id = id
              /\ inst'[call'.ret].sourceState = EMPTY
    ]_vars

\* local('2') made the EMPTY placeholder of id 2 while the instance of id 1
\* exists, and no mapper call was made
C20_Witness ==
  /\ call.op = "local" /\ call.err = NoErr /\ call.was = Undef
  /\ call.id = "2" /\ call.ret = 2
  /\ inst[2].id = "2" /\ inst[2].sourceState = EMPTY
  /\ inst[1].id = "1"
  /\ calls = <<>>

\* C21: an assignment to the id of an instance whose id is neither undefined
\* nor null raises IdentityImmutable and leaves the instance's id and the
\* identity map as they were.
C21_IdentityImmutable ==
  [][\A i \in Insts : \A id \in IdKeys :
       (inst[i].id \notin {Undef, Null} /\ SetId(i, id)) =>
         /\ call'.err = IdentityImmutable
         /\ UNCHANGED <<inst, idmap>>
    ]_vars

\* C22: in every step IdMap.insert is called with an instance once when the
\* instance's id goes from undefined or null to another value, and is not
\* called with it otherwise.
C22_InsertOncePerInstance ==
  [][\A i \in Insts :
       inserts'[i] = inserts[i] +
         (IF inst[i].id \in {Undef, Null} /\ inst'[i].id \notin {Undef, Null}
          THEN 1 ELSE 0)
    ]_vars

\* C23: every instance constructed has a sourceState among NEW, EMPTY,
\* LOADED, DELETED and NOTFOUND and a boolean isBusy.
C23_LifecycleState ==
  \A i \in 1..live :
    /\ inst[i].sourceState \in {NEW_STATE, EMPTY, LOADED, DELETED, NOTFOUND}
    /\ inst[i].isBusy \in {True, False}

\* C30: from every state, a load of a payload with a key that names no
\* attribute and no association does what the load of the payload without
\* the key does: same result, same exception if any, same instances and
\* identity map, and no property made for the key.
C30_UnknownKeysIgnored ==
  \A attrs \in KeyPayloads :
    LET with == load(LStart, attrs)
        without == load(LStart, [attrs EXCEPT !.other = Absent])
    IN  /\ with.err = without.err
        /\ with.err = NoErr => with.ret = without.ret
        /\ with.inst = without.inst
        /\ with.idmap = without.idmap
        /\ with.err = NoErr => attrs.other \notin with.inst[with.ret].props

(***************************************************************************)
(* Properties of the query array, under SpecQuery.                         *)
(***************************************************************************)
\* the mapper calls made and not yet settled
Outstanding == SelectSeq(inflight, LAMBDA c : c.outcome = "pending")

\* C7: at most one mapper call is outstanding at any time (not even one whose
\* settlement the array has still to handle), and a query() made while the
\* array is busy makes no mapper call.
C7_OneOutstandingCall ==
  [][/\ Len(inflight') <= 1
     /\ \A opts \in UserOpts : (isBusy /\ Query(opts)) => calls' = calls
    ]_vars

\* query("A") is in flight and query("B"), made while busy, waits
C7_Witness ==
  /\ Len(Outstanding) = 1
  /\ isBusy
  /\ queued = "B"
  /\ calls = <<"A">>
  /\ Len(log) = 2 /\ log[2].ev = "query" /\ log[2].busy

\* C8: when a query() is dispatched from idle and k >= 1 more are made while
\* it is in flight, the mapper has been called once, with the first call's
\* options, until the settlement; once the call has settled and the promise
\* jobs have run, the mapper has been called exactly twice, the second time
\* with the options of the last of the k calls.
C8_Coalescing ==
  LET n == Len(log)
  IN  /\ (/\ mapper = "promise"
          /\ n >= 1
          /\ \A i \in 1..n : log[i].ev = "query")
         => calls = <<log[1].arg>>
      /\ (/\ mapper = "promise"
          /\ n >= 3
          /\ \A i \in 1..(n - 1) : log[i].ev = "query"
          /\ log[n].ev = "settle"
          /\ jobs = <<>>)
         => calls = <<log[1].arg, log[n - 1].arg>>

Settlements == Len(SelectSeq(log, LAMBDA e : e.ev = "settle"))

\* C9: no mapper call but the first is made before the call before it has
\* settled; once a mapper call has settled, fulfilled or rejected, with a
\* query() captured while it was in flight, and the promise jobs have run,
\* the next mapper call has been made, with the latest options captured.
C9_QueuedCallDispatchedNext ==
  (mapper = "promise" /\ log # <<>>) =>
    LET last == log[Len(log)]
    IN  /\ Len(calls) <= Settlements + 1
        /\ (last.ev = "settle" /\ last.queued # Undef /\ jobs = <<>>)
           => /\ Len(calls) = last.ncalls + 1
              /\ calls[Len(calls)] = last.queued


C26_BusyIffInFlight ==
  /\ log = <<>> => (~isBusy /\ contents = <<>>)
  /\ jobs = <<>> =>
       /\ isBusy <=> Len(inflight) = 1
       /\ queued # Undef => isBusy

\* C27: a query() on an array that is not busy raises a mapper contract error
\* at the call site when the class has no mapper, the mapper has no query
\* method or the method returns no promise; building the array raises nothing.
C27_MapperContract ==
  /\ log = <<>> => thrown = NoErr
  /\ (/\ log # <<>>
      /\ log[Len(log)].ev = "query"
      /\ ~log[Len(log)].busy
      /\ mapper \in {"none", "nomethod", "nonpromise"})
     => thrown = MapperContractError

\* query("A") on a new array whose mapper's query returns no promise
C27_Witness ==
  /\ mapper = "nonpromise"
  /\ Len(log) = 1 /\ log[1].ev = "query" /\ ~log[1].busy
  /\ calls = <<"A">>
  /\ thrown = MapperContractError

\* the job that calls the handlers h
UserJob(h) == [kind |-> "user", p |-> h, outcome |-> "none"]

Registered(h) ==
  CHOOSE i \in 1..Len(log) :
    /\ log[i].ev \in {"then", "catch"}
    /\ Cardinality({j \in 1..i : log[j].ev \in {"then", "catch"}}) = h

\* the handlers h were given before the first query() call
BeforeAnyQuery(h) == \A i \in 1..Registered(h) : log[i].ev # "query"

\* C28: handlers given to then before any query() have their fulfilment
\* callback called, with no value, once the promise jobs have run, and never
\* their rejection callback; a handler given to catch before any query() is
\* never called; and as long as there were only then / catch calls the mapper
\* has not been called.
C28_ThenBeforeQuery ==
  /\ (\A i \in 1..Len(log) : log[i].ev \in {"then", "catch"}) => calls = <<>>
  /\ \A h \in 1..Len(handled) :
       BeforeAnyQuery(h) =>
         /\ handled[h].called \in
              {"none", IF handled[h].kind = "then" THEN "onFulfilled" ELSE "passed"}
         /\ handled[h].v = Undef
         /\ jobs = <<>> => handled[h].called # "none"

\* a.then(f1, f2); a.catch(f); a.query("A"), rejected with e: f1 was called,
\* f was not
C28_Witness ==
  /\ Len(log) = 4
  /\ log[1].ev = "then" /\ log[2].ev = "catch" /\ log[3].ev = "query"
  /\ log[4].ev = "settle" /\ log[4].arg = "rejected"
  /\ jobs = <<>>
  /\ error = Reason
  /\ calls = <<"A">>
  /\ handled[1].called = "onFulfilled" /\ handled[1].v = Undef
  /\ handled[2].called = "passed"

\* C37: whenever the array is idle and no promise job is waiting to run, no
\* options are left in __queued__.
C37_NoRequestLeftBehind ==
  (~isBusy /\ jobs = <<>>) => queued = Undef

\* C38: a step that changes the contents of the array is the job of the
\* fulfilment handler of a mapper call; a.query(opts), whether it dispatches
\* or queues, the job of a rejection handler and the job of the queued
\* callback leave the contents as they were.
C38_ContentsChangeOnFulfilment ==
  [][/\ contents' # contents =>
          /\ jobs # <<>>
          /\ Head(jobs).kind = "settled"
          /\ Head(jobs).outcome = "fulfilled"
          /\ log' = log
     /\ \A opts \in UserOpts : Query(opts) => contents' = contents
     /\ (RunJob /\ ~(Head(jobs).kind = "settled" /\ Head(jobs).outcome = "fulfilled"))
          => contents' = contents
    ]_vars

\* a call was fulfilled, the next was dispatched and rejected with e, and a
\* third is in flight: the array still holds what the first call loaded
C38_Witness ==
  /\ contents = Loadable
  /\ error = Reason
  /\ isBusy
  /\ Len(calls) = 3

\* the outcome of the k-th mapper call: at most one call is outstanding at a
\* time, so the calls settle in the order they were made
OutcomeOf(k) == SelectSeq(log, LAMBDA e : e.ev = "settle")[k].arg

\* the handlers h were called as the handlers of a promise settled with the
\* given outcome of a mapper call are
Delivered(h, outcome) ==
  IF outcome = "fulfilled"
  THEN /\ handled[h].called = IF handled[h].kind = "then" THEN "onFulfilled" ELSE "passed"
       /\ handled[h].v = Undef
  ELSE /\ handled[h].called = "onRejected"
       /\ handled[h].v = IF outcome = "rejected" THEN Reason ELSE MissingIdentity

\* the latest mapper call had not settled when log entry i was made
InFlightAt(i) ==
  Cardinality({j \in 1..i : log[j].ev = "settle"}) = log[i].ncalls - 1

\* a.query() was called while the latest mapper call was in flight, before
\* log entry i was made
QueuedBefore(i) ==
  \E j \in 1..(i - 1) :
    log[j].ev = "query" /\ log[j].busy /\ log[j].ncalls = log[i].ncalls

\* C39: with call n in flight, handlers given to then / catch after a call
\* was queued are called only once call n + 1, the queued call, has settled,
\* and with its outcome; handlers given before any call was queued are called
\* only once call n has settled, and with its outcome.
C39_LatestCompletionSignal ==
  mapper = "promise" =>
    \A h \in 1..Len(handled) :
      LET e == log[Registered(h)]
          k == IF QueuedBefore(Registered(h)) THEN e.ncalls + 1 ELSE e.ncalls
      IN  (e.busy /\ InFlightAt(Registered(h)) /\ handled[h].called # "none")
          => /\ Settlements >= k
             /\ Delivered(h, OutcomeOf(k))

(***************************************************************************)
(* Properties of the class-level declarations.                             *)
(***************************************************************************)
\* C31: from every state, registerClass(klass, name) with a klass that is no
\* subclass of Model, with no non-empty name given or derivable from the
\* class, or with a name already in the registry throws one of
\* registerClass's errors and leaves the registry and the classes'
\* displayName as they were; and no call rebinds a name that is bound.
C31_RegisterClassFails ==
  \A klass \in KlassArgs, name \in NameArgs :
    LET s == registerClass(RStart, klass, name)
        n == IF name # Undef THEN name
             ELSE IF klass \in {Undef, Null} THEN Undef
             ELSE klassName(klass)
        notSubclass == klass \notin Subclasses
        noName == n \in {Undef, Null, ""}
        taken == n \in RegNames /\ registeredClasses[n] # Unbound
    IN  /\ (notSubclass \/ noName \/ taken) =>
             /\ s.err \in RegistrationErrors
             /\ s.registeredClasses = registeredClasses
             /\ s.displayName = displayName
        /\ \A m \in RegNames :
             registeredClasses[m] # Unbound
             => s.registeredClasses[m] = registeredClasses[m]

\* C32: for the attribute declared with attr(name, type, {default: d}), of
\* any built-in type: a write of v that returns leaves v in
\* <name>BeforeCoercion and makes the read return coerce(v), or d when
\* coerce(v) is undefined; and the read returns d when the attribute was
\* never written and after a write of undefined.
C32_AttributeReadWrite ==
  /\ slot = Undef => attrGet(TStart) = attrDecl.def
  /\ \A v \in AttrValues :
       LET a == attrSet(TStart, v)
           c == coerce(attrDecl.type, v)
       IN  a.err = NoErr =>
             /\ a.shadow = v
             /\ attrGet(a) = IF c = Undef THEN attrDecl.def ELSE c
             /\ v = Undef => attrGet(a) = attrDecl.def

\* C40: in every state a class finds in its descriptor map every name
\* declared on it or on a class it descends from, and from every state a
\* declaration on a class leaves what every class that does not descend from
\* it finds in its descriptor map as it was.
C40_DescriptorsInherited ==
  /\ \A d \in declared : \A c \in SelfAndDescendants(d.c) :
       DescriptorsOf(DStart, c)[d.name] # NoDesc
  /\ \A c \in DClasses, name \in AssocNames :
       \A desc \in {hasOne(name, "Bar", Undef), hasMany(name, "Bar", Undef)} :
         \A p \in DClasses \ SelfAndDescendants(c) :
           DescriptorsOf(declare(DStart, c, desc), p) = DescriptorsOf(DStart, p)
====
